---- MODULE Spec2Model ----
(***************************************************************************)
(* Model of src/mech_exec/mech_exec.py: the rover mechanisms executable.   *)
(*                                                                         *)
(* The process loads a calibration document, stops the drive motors, binds *)
(* a REP and a PUB socket and then loops on handle_mech until the global   *)
(* STOP_EXEC flag is set by the signal handler.                            *)
(*                                                                         *)
(* Hardware values are integers (the code uses floats): the linear map     *)
(* gain * x + offset and the max/min clamp are computed exactly as in the  *)
(* code, on an integer grid.                                               *)
(***************************************************************************)
EXTENDS Integers, Sequences, FiniteSets, TLC

\* ------------------------------------------------------------------------
\* Bounds of the model
\* ------------------------------------------------------------------------

\* largest magnitude of a demand value in a received batch
MaxDem == 1

\* largest number of entries (position and speed together) in one batch
MaxEntries == 2

\* ------------------------------------------------------------------------
\* Actuator names (Mechanisms.motor_id_dict) and groups
\* ------------------------------------------------------------------------

motor_id_dict ==
    [DrvFL |-> 0, DrvML |-> 1, DrvRL |-> 2, DrvFR |-> 3, DrvMR |-> 4, DrvRR |-> 5,
     StrFL |-> 0, StrML |-> 1, StrRL |-> 2, StrFR |-> 3, StrMR |-> 4, StrRR |-> 5,
     ArmBase |-> 0, ArmShoulder |-> 1, ArmElbow |-> 2, ArmWrist |-> 3, ArmGrabber |-> 4]

\* motor_id_dict.keys(), in insertion order (the order stop() iterates in)
motor_keys ==
    <<"DrvFL", "DrvML", "DrvRL", "DrvFR", "DrvMR", "DrvRR",
      "StrFL", "StrML", "StrRL", "StrFR", "StrMR", "StrRR",
      "ArmBase", "ArmShoulder", "ArmElbow", "ArmWrist", "ArmGrabber">>

DrvNames == {"DrvFL", "DrvML", "DrvRL", "DrvFR", "DrvMR", "DrvRR"}
StrNames == {"StrFL", "StrML", "StrRL", "StrFR", "StrMR", "StrRR"}
ArmNames == {"ArmBase", "ArmShoulder", "ArmElbow", "ArmWrist", "ArmGrabber"}

\* The actuator ids that occur as keys of the two sections of a received
\* batch.  "StrXX" and "DrvXX" have the steer and the drive prefix but are no
\* keys of motor_id_dict.
PosIds == {"StrML", "ArmShoulder", "DrvML", "StrXX"}

SpeedIds == {"DrvML", "StrML", "DrvXX"}

\* act_id[:3]
Group(act_id) ==
    CASE act_id \in DrvNames \cup {"DrvXX"} -> "Drv"
      [] act_id \in StrNames \cup {"StrXX"} -> "Str"
      [] act_id \in ArmNames -> "Arm"
      [] OTHER -> "Oth"

\* ------------------------------------------------------------------------
\* The calibration document (self.mech_exec), as loaded by toml.load
\* ------------------------------------------------------------------------

\* The calibrations the process may be started with: per motor of a group
\* << gain, offset >> and the clamp range.  In the first every motor of a
\* group has the same calibration; in the second the motors differ, a gain is
\* negative and an offset lies outside the clamp range.
Calibrations ==
    { [drv_coeffs |-> << <<2, 0>>, <<2, 0>>, <<2, 0>>, <<2, 0>>, <<2, 0>>, <<2, 0>> >>,
       drv_min    |-> <<-1, -1, -1, -1, -1, -1>>,
       drv_max    |-> <<1, 1, 1, 1, 1, 1>>,
       str_coeffs |-> << <<1, 1>>, <<1, 1>>, <<1, 1>>, <<1, 1>>, <<1, 1>>, <<1, 1>> >>,
       str_min    |-> <<0, 0, 0, 0, 0, 0>>,
       str_max    |-> <<2, 2, 2, 2, 2, 2>>,
       arm_coeffs |-> << <<1, 1>>, <<1, 1>>, <<1, 1>>, <<1, 1>>, <<1, 1>> >>,
       arm_min    |-> <<0, 0, 0, 0, 0>>,
       arm_max    |-> <<2, 2, 2, 2, 2>>],
      [drv_coeffs |-> << <<1, -1>>, <<2, 1>>, <<1, 0>>, <<1, 1>>, <<2, 0>>, <<1, 0>> >>,
       drv_min    |-> <<0, -2, -1, -1, -2, 0>>,
       drv_max    |-> <<2, 2, 1, 1, 2, 0>>,
       str_coeffs |-> << <<1, 0>>, <<2, 1>>, <<1, 2>>, <<1, 1>>, <<2, 0>>, <<1, 1>> >>,
       str_min    |-> <<0, 0, 1, 0, 0, 0>>,
       str_max    |-> <<1, 2, 3, 2, 2, 2>>,
       arm_coeffs |-> << <<1, 0>>, <<-1, 1>>, <<1, 1>>, <<2, 1>>, <<1, 1>> >>,
       arm_min    |-> <<0, 1, 0, 0, 0>>,
       arm_max    |-> <<2, 3, 2, 2, 2>>] }

\* The documents the process may be started with
Configs ==
    { [drv_rate_norm_to_sk_coeffs |-> c.drv_coeffs,
       drv_rate_min_sk            |-> c.drv_min,
       drv_rate_max_sk            |-> c.drv_max,
       str_ang_rad_to_sk_coeffs   |-> c.str_coeffs,
       str_ang_min_sk             |-> c.str_min,
       str_ang_max_sk             |-> c.str_max,
       arm_ang_rad_to_sk_coeffs   |-> c.arm_coeffs,
       arm_ang_min_sk             |-> c.arm_min,
       arm_ang_max_sk             |-> c.arm_max,
       str_act_range_sk           |-> <<180, 180, 180, 180, 180, 180>>,
       str_pw_range_min           |-> <<500, 500, 500, 500, 500, 500>>,
       str_pw_range_max           |-> <<2500, 2500, 2500, 2500, 2500, 2500>>,
       drv_idx_map |-> << <<0, 0>>, <<0, 1>>, <<0, 2>>, <<0, 3>>, <<0, 4>>, <<0, 5>> >>,
       str_idx_map |-> << <<0, 6>>, <<0, 7>>, <<0, 8>>, <<0, 9>>, <<0, 10>>, <<0, 11>> >>,
       arm_idx_map |-> << <<1, 0>>, <<1, 1>>, <<1, 2>>, <<1, 3>>, <<1, 4>> >>]
      : c \in Calibrations }

\* The keys Mechanisms reads from the document, each an array per motor
RequiredKeys ==
    {"drv_rate_norm_to_sk_coeffs", "drv_rate_min_sk", "drv_rate_max_sk",
     "str_ang_rad_to_sk_coeffs", "str_ang_min_sk", "str_ang_max_sk",
     "arm_ang_rad_to_sk_coeffs", "arm_ang_min_sk", "arm_ang_max_sk",
     "str_act_range_sk", "str_pw_range_min", "str_pw_range_max",
     "drv_idx_map", "str_idx_map", "arm_idx_map"}

\* the document d with the key left out
Without(d, key) == [k \in (DOMAIN d) \ {key} |-> d[k]]

\* the document d with the last element of the array left out
Shortened(d, key) == [d EXCEPT ![key] = SubSeq(@, 1, Len(@) - 1)]

\* toml.load accepts any document: one that lacks the steer coefficients, one
\* whose drive coefficients have an element less than there are drive motors,
\* and one that wires the first drive motor to a third board
DefectiveConfigs ==
    LET d == CHOOSE c \in Configs : c.drv_rate_min_sk[1] = -1
    IN  { Without(d, "str_ang_rad_to_sk_coeffs"),
          Shortened(d, "drv_rate_norm_to_sk_coeffs"),
          [d EXCEPT !.drv_idx_map[1] = <<2, 0>>] }

\* ------------------------------------------------------------------------
\* The hardware: two ServoKit boards of 16 channels (Mechanisms.init_eqpt)
\* ------------------------------------------------------------------------

channels == 16

Channels == (0 .. 1) \X (0 .. channels - 1)

\* A channel attribute is << >> until it is first written, then << value >>.
init_eqpt ==
    [angle           |-> [c \in Channels |-> << >>],
     throttle        |-> [c \in Channels |-> << >>],
     actuation_range |-> [c \in Channels |-> << >>],
     pulse_width     |-> [c \in Channels |-> << >>]]

VARIABLES
    pc,             \* position of the process in main()/run()
    STOP_EXEC,      \* the global flag set by exit_sig_handler
    run_controller, \* the run flag of run()
    mech_exec,      \* self.mech_exec, the loaded calibration document
    servo_kits,     \* the per-channel state of the two boards
    rep_state,      \* MECH_REP: "unbound", "recv", "send" or "closed"
    pub_state,      \* MECH_PUB: "unbound", "bound" or "closed"
    trace,          \* what the current step did: writes, replies, log lines
    last_recv,      \* outcome of the receive of the current loop iteration
    mech_dems,      \* the document decoded in the current loop iteration
    stop_triggered, \* history: stop() was called by the loop or after it
    crash           \* the uncaught exception that ended the process

vars == <<pc, STOP_EXEC, run_controller, mech_exec, servo_kits,
          rep_state, pub_state, trace, last_recv, mech_dems, stop_triggered, crash>>

\* ------------------------------------------------------------------------
\* Events of the trace
\* ------------------------------------------------------------------------

Event(ev, motor, val, by) == [ev |-> ev, motor |-> motor, val |-> val, by |-> by]

IsWrite(e) == e.ev \in {"angle", "throttle"}

Writes(tr) == SelectSeq(tr, IsWrite)

EventsOf(tr, ev) == SelectSeq(tr, LAMBDA e : e.ev = ev)

\* The state of one call into the Mechanisms object
CallState(hw, tr) == [hw |-> hw, trace |-> tr, exc |-> "none"]

Raise(st, exc) == [st EXCEPT !.exc = exc]

Max(a, b) == IF a >= b THEN a ELSE b

Min(a, b) == IF a <= b THEN a ELSE b

\* ------------------------------------------------------------------------
\* Mechanisms.load_setting / Mechanisms.get_motor
\* ------------------------------------------------------------------------

\* self.mech_exec[group.lower() + '_idx_map']
idx_map(cfg, group) ==
    CASE group = "Drv" -> cfg.drv_idx_map
      [] group = "Str" -> cfg.str_idx_map
      [] group = "Arm" -> cfg.arm_idx_map

\* the key load_setting reads the channel and the board from
idx_map_key(group) ==
    CASE group = "Drv" -> "drv_idx_map"
      [] group = "Str" -> "str_idx_map"
      [] group = "Arm" -> "arm_idx_map"

\* the arrays load_setting subscripts by the motor index, in the order read
setting_keys(group) ==
    <<idx_map_key(group), "str_act_range_sk", "str_pw_range_min", "str_pw_range_max">>

\* the exception of the first failing cfg[key][motor_idx] of the keys: KeyError
\* for a key the document lacks, IndexError for an array that is too short
lookup_exc(cfg, keys, motor_idx) ==
    LET fails(i) == \/ keys[i] \notin DOMAIN cfg
                    \/ motor_idx + 1 > Len(cfg[keys[i]])
    IN  IF \A i \in DOMAIN keys : ~fails(i)
        THEN "none"
        ELSE LET first == CHOOSE i \in DOMAIN keys :
                              fails(i) /\ \A j \in 1 .. i - 1 : ~fails(j)
             IN  IF keys[first] \notin DOMAIN cfg THEN "KeyError" ELSE "IndexError"

\* Python indexes from 0, TLA+ sequences from 1
load_setting(cfg, name, group) ==
    LET motor_idx == motor_id_dict[name]
    IN  [Channel         |-> idx_map(cfg, group)[motor_idx + 1][2],
         Actuation_Range |-> cfg.str_act_range_sk[motor_idx + 1],
         Pulse_Width     |-> <<cfg.str_pw_range_min[motor_idx + 1],
                               cfg.str_pw_range_max[motor_idx + 1]>>,
         Servo_Kit       |-> idx_map(cfg, group)[motor_idx + 1][1]]

\* the channel of the handle get_motor returns
MotorChannel(cfg, name, group) ==
    LET motor_setting == load_setting(cfg, name, group)
    IN  <<motor_setting.Servo_Kit, motor_setting.Channel>>

\* the groups whose channel get_motor configures on every call
ConfiguredGroups == {"Str", "Arm"}

\* the boards after get_motor(name, group): for a steer or arm motor the
\* actuation range and the pulse width range of the channel are set
get_motor(hw, cfg, name, group) ==
    LET motor_setting == load_setting(cfg, name, group)
        c == <<motor_setting.Servo_Kit, motor_setting.Channel>>
    IN  IF group \in ConfiguredGroups
        THEN [hw EXCEPT !.actuation_range[c] = <<motor_setting.Actuation_Range>>,
                        !.pulse_width[c]     = <<motor_setting.Pulse_Width>>]
        ELSE hw

\* the writes get_motor makes to the configuration of the channel
configure_events(name, group, by) ==
    IF group \in ConfiguredGroups
    THEN << Event("configure", name, 0, by) >>
    ELSE << >>

\* the exception of resolving the handle of a motor: a failing lookup in the
\* document, or servo_kits[Servo_Kit] or servo[Channel] out of range
motor_exc(cfg, keys, name, group) ==
    LET exc == lookup_exc(cfg, keys, motor_id_dict[name])
    IN  IF exc # "none"
        THEN exc
        ELSE IF MotorChannel(cfg, name, group) \notin Channels
             THEN "IndexError"
             ELSE "none"

\* ------------------------------------------------------------------------
\* Mechanisms.actuate_mech_dems
\* ------------------------------------------------------------------------

\* self.mech_exec[f'{group.lower()}_ang_rad_to_sk_coeffs']
ang_rad_to_sk_coeffs(cfg, group) ==
    IF group = "Str" THEN cfg.str_ang_rad_to_sk_coeffs ELSE cfg.arm_ang_rad_to_sk_coeffs

ang_min_sk(cfg, group) ==
    IF group = "Str" THEN cfg.str_ang_min_sk ELSE cfg.arm_ang_min_sk

ang_max_sk(cfg, group) ==
    IF group = "Str" THEN cfg.str_ang_max_sk ELSE cfg.arm_ang_max_sk

\* pos_sk with the lower clamp forgotten
pos_sk_no_lower_clamp(cfg, act_id, group, position_rad) ==
    LET i == motor_id_dict[act_id] + 1
        rad_to_sk_map == ang_rad_to_sk_coeffs(cfg, group)[i]
        raw == rad_to_sk_map[1] * position_rad + rad_to_sk_map[2]
    IN  Min(ang_max_sk(cfg, group)[i], raw)

\* the clamped servo angle of a position demand
pos_sk(cfg, act_id, group, position_rad) ==
    LET i == motor_id_dict[act_id] + 1
        rad_to_sk_map == ang_rad_to_sk_coeffs(cfg, group)[i]
        raw == rad_to_sk_map[1] * position_rad + rad_to_sk_map[2]
    IN  Max(ang_min_sk(cfg, group)[i], Min(ang_max_sk(cfg, group)[i], raw))

\* rate_sk with the upper clamp forgotten
rate_sk_no_upper_clamp(cfg, act_id, speed_rads) ==
    LET i == motor_id_dict[act_id] + 1
        rate_to_sk_map == cfg.drv_rate_norm_to_sk_coeffs[i]
        raw == rate_to_sk_map[1] * speed_rads + rate_to_sk_map[2]
    IN  Max(cfg.drv_rate_min_sk[i], raw)

\* rate_sk without the lower clamp
rate_sk_no_lower_clamp(cfg, act_id, speed_rads) ==
    LET i == motor_id_dict[act_id] + 1
        rate_to_sk_map == cfg.drv_rate_norm_to_sk_coeffs[i]
        raw == rate_to_sk_map[1] * speed_rads + rate_to_sk_map[2]
    IN  Min(cfg.drv_rate_max_sk[i], raw)

\* the clamped throttle of a speed demand
rate_sk(cfg, act_id, speed_rads) ==
    LET i == motor_id_dict[act_id] + 1
        rate_to_sk_map == cfg.drv_rate_norm_to_sk_coeffs[i]
        raw == rate_to_sk_map[1] * speed_rads + rate_to_sk_map[2]
    IN  Max(cfg.drv_rate_min_sk[i], Min(cfg.drv_rate_max_sk[i], raw))

\* A hardware write is an I2C transfer that may raise.  failAt numbers the
\* write attempt of the call that raises (0: none does).
WriteFails(st, base, failAt) == Len(Writes(st.trace)) - base + 1 = failAt

\* SetAngle with the demand added to the angle the channel holds
SetAngle_relative(st, cfg, act_id, group, val, base, failAt) ==
    LET hw1 == get_motor(st.hw, cfg, act_id, group)
        c   == MotorChannel(cfg, act_id, group)
        new == IF hw1.angle[c] = << >> THEN val ELSE hw1.angle[c][1] + val
        cfe == configure_events(act_id, group, "actuate")
    IN  IF WriteFails(st, base, failAt)
        THEN [st EXCEPT !.hw = hw1, !.trace = @ \o cfe, !.exc = "HardwareWriteError"]
        ELSE [st EXCEPT !.hw = [hw1 EXCEPT !.angle[c] = <<new>>],
                        !.trace = (@ \o cfe) \o << Event("angle", act_id, new, "actuate") >>]

\* get_motor(...).angle = val
SetAngle(st, cfg, act_id, group, val, base, failAt) ==
    LET hw1 == get_motor(st.hw, cfg, act_id, group)
        c   == MotorChannel(cfg, act_id, group)
        cfe == configure_events(act_id, group, "actuate")
    IN  IF WriteFails(st, base, failAt)
        THEN [st EXCEPT !.hw = hw1, !.trace = @ \o cfe, !.exc = "HardwareWriteError"]
        ELSE [st EXCEPT !.hw = [hw1 EXCEPT !.angle[c] = <<val>>],
                        !.trace = (@ \o cfe) \o << Event("angle", act_id, val, "actuate") >>]

\* get_motor(...).throttle = val
SetThrottle(st, cfg, act_id, group, val, by, base, failAt) ==
    LET hw1 == get_motor(st.hw, cfg, act_id, group)
        c   == MotorChannel(cfg, act_id, group)
        cfe == configure_events(act_id, group, by)
    IN  IF WriteFails(st, base, failAt)
        THEN [st EXCEPT !.hw = hw1, !.trace = @ \o cfe, !.exc = "HardwareWriteError"]
        ELSE [st EXCEPT !.hw = [hw1 EXCEPT !.throttle[c] = <<val>>],
                        !.trace = (@ \o cfe) \o << Event("throttle", act_id, val, by) >>]

\* the groups whose position demands are actuated
PositionGroups == {"Str", "Arm"}

\* the arrays one position demand reads, in the order read
pos_keys(group) ==
    (CASE group = "Str" ->
            <<"str_ang_rad_to_sk_coeffs", "str_ang_min_sk", "str_ang_max_sk">>
       [] group = "Arm" ->
            <<"arm_ang_rad_to_sk_coeffs", "arm_ang_min_sk", "arm_ang_max_sk">>)
    \o setting_keys(group)

\* the arrays one speed demand reads, in the order read
speed_keys ==
    <<"drv_rate_norm_to_sk_coeffs", "drv_rate_min_sk", "drv_rate_max_sk">>
    \o setting_keys("Drv")

\* one entry of dems['pos_rad']
actuate_pos_entry(st, cfg, e, base, failAt) ==
    LET group == Group(e.id)
    IN  IF group \in PositionGroups
        THEN IF e.id \notin DOMAIN motor_id_dict
             THEN Raise(st, "KeyError")
             ELSE LET exc == motor_exc(cfg, pos_keys(group), e.id, group)
                  IN  IF exc # "none"
                      THEN Raise(st, exc)
                      ELSE SetAngle(st, cfg, e.id, group,
                                    pos_sk(cfg, e.id, group, e.val), base, failAt)
        ELSE st

\* actuate_speed_entry without the test of the group
actuate_speed_entry_any_group(st, cfg, e, base, failAt) ==
    LET group == Group(e.id)
    IN  IF e.id \notin DOMAIN motor_id_dict
        THEN Raise(st, "KeyError")
        ELSE LET exc == motor_exc(cfg, speed_keys, e.id, group)
             IN  IF exc # "none"
                 THEN Raise(st, exc)
                 ELSE SetThrottle(st, cfg, e.id, group,
                                  rate_sk(cfg, e.id, e.val), "actuate",
                                  base, failAt)

\* one entry of dems['speed_rads']
actuate_speed_entry(st, cfg, e, base, failAt) ==
    LET group == Group(e.id)
    IN  IF group = "Drv"
        THEN IF e.id \notin DOMAIN motor_id_dict
             THEN Raise(st, "KeyError")
             ELSE LET exc == motor_exc(cfg, speed_keys, e.id, group)
                  IN  IF exc # "none"
                      THEN Raise(st, exc)
                      ELSE SetThrottle(st, cfg, e.id, group,
                                       rate_sk(cfg, e.id, e.val), "actuate",
                                       base, failAt)
        ELSE st

RECURSIVE actuate_pos(_, _, _, _, _)
\* for act_id, position_rad in dems['pos_rad'].items(): an exception ends the loop
actuate_pos(st, cfg, entries, base, failAt) ==
    IF entries = << >> \/ st.exc # "none"
    THEN st
    ELSE actuate_pos(actuate_pos_entry(st, cfg, Head(entries), base, failAt),
                     cfg, Tail(entries), base, failAt)

RECURSIVE actuate_speed(_, _, _, _, _)
\* for act_id, speed_rads in dems['speed_rads'].items()
actuate_speed(st, cfg, entries, base, failAt) ==
    IF entries = << >> \/ st.exc # "none"
    THEN st
    ELSE actuate_speed(actuate_speed_entry(st, cfg, Head(entries), base, failAt),
                       cfg, Tail(entries), base, failAt)

\* actuate_mech_dems with the speed demands actuated first
actuate_mech_dems_speed_first(st, cfg, dems, failAt) ==
    LET base == Len(Writes(st.trace))
    IN  IF "speed_rads" \notin dems.keys
        THEN Raise(st, "KeyError")
        ELSE LET s1 == actuate_speed(st, cfg, dems.speed_rads, base, failAt)
             IN  IF s1.exc # "none"
                 THEN s1
                 ELSE IF "pos_rad" \notin dems.keys
                      THEN Raise(s1, "KeyError")
                      ELSE actuate_pos(s1, cfg, dems.pos_rad, base, failAt)

\* A decoded document is [keys, pos_rad, speed_rads]: keys are the keys the
\* document has, and a section is the sequence of its [id, val] entries in the
\* order of the mapping.  Subscripting a document by a key it does not have
\* raises (KeyError; TypeError when the document is no mapping at all).
actuate_mech_dems(st, cfg, dems, failAt) ==
    LET base == Len(Writes(st.trace))
    IN  IF "pos_rad" \notin dems.keys
        THEN Raise(st, "KeyError")
        ELSE LET s1 == actuate_pos(st, cfg, dems.pos_rad, base, failAt)
             IN  IF s1.exc # "none"
                 THEN s1
                 ELSE IF "speed_rads" \notin dems.keys
                      THEN Raise(s1, "KeyError")
                      ELSE actuate_speed(s1, cfg, dems.speed_rads, base, failAt)

\* ------------------------------------------------------------------------
\* Mechanisms.stop
\* ------------------------------------------------------------------------

\* stop_value as a hardware zero shared by all drive motors
stop_value_hard_zero(cfg, motor) == 0

\* stop_value reading the gain of the motor instead of its offset
stop_value_gain(cfg, motor) ==
    cfg.drv_rate_norm_to_sk_coeffs[motor_id_dict[motor] + 1][1]

\* the throttle stop() writes to a drive motor
stop_value(cfg, motor) ==
    cfg.drv_rate_norm_to_sk_coeffs[motor_id_dict[motor] + 1][2]

\* the arrays stop() reads for one drive motor, in the order read
stop_keys == <<"drv_rate_norm_to_sk_coeffs">> \o setting_keys("Drv")

\* StopGroups with the steer motors stopped as well
StopGroupsWithSteer == {"Drv", "Str"}

\* the groups stop() writes to
StopGroups == {"Drv"}

stop_entry(st, cfg, motor, base, failAt) ==
    LET group == Group(motor)
    IN  IF group \in StopGroups
        THEN LET exc == motor_exc(cfg, stop_keys, motor, group)
             IN  IF exc # "none"
                 THEN Raise(st, exc)
                 ELSE SetThrottle(st, cfg, motor, group, stop_value(cfg, motor),
                                  "stop", base, failAt)
        ELSE st

RECURSIVE stop_loop(_, _, _, _, _)
stop_loop(st, cfg, motors, base, failAt) ==
    IF motors = << >> \/ st.exc # "none"
    THEN st
    ELSE stop_loop(stop_entry(st, cfg, Head(motors), base, failAt),
                   cfg, Tail(motors), base, failAt)

\* stop() stopping the two front drive motors only
stop_front_only(st, cfg, failAt) ==
    LET s0 == [st EXCEPT !.trace = Append(@, Event("stop", "-", 0, "stop"))]
    IN  stop_loop(s0, cfg, <<"DrvFL", "DrvFR">>, Len(Writes(s0.trace)), failAt)

stop(st, cfg, failAt) ==
    LET s0 == [st EXCEPT !.trace = Append(@, Event("stop", "-", 0, "stop"))]
    IN  stop_loop(s0, cfg, motor_keys, Len(Writes(s0.trace)), failAt)

\* ------------------------------------------------------------------------
\* The messages a client may send
\* ------------------------------------------------------------------------

DemVals == (-MaxDem) .. MaxDem

\* The entries of the two sections.  The value of an entry is read only when
\* its id is a key of motor_id_dict and its group is one the section actuates.
PosEntries ==
    { e \in [id : PosIds, val : DemVals] :
        ~(e.id \in DOMAIN motor_id_dict /\ Group(e.id) \in {"Str", "Arm"}) => e.val = 0 }

SpeedEntries ==
    { e \in [id : SpeedIds, val : DemVals] :
        ~(e.id \in DOMAIN motor_id_dict /\ Group(e.id) = "Drv") => e.val = 0 }

\* the entries of a document that call for a hardware write
NumAttempts(dems) ==
    Len(SelectSeq(dems.pos_rad, LAMBDA e : Group(e.id) \in {"Str", "Arm"}))
      + Len(SelectSeq(dems.speed_rads, LAMBDA e : Group(e.id) = "Drv"))

\* the keys of a JSON object are distinct
DistinctIds(sec) == \A i, j \in 1 .. Len(sec) : sec[i].id = sec[j].id => i = j

Sections(entries) ==
    { sec \in UNION { [1 .. k -> entries] : k \in 0 .. MaxEntries } : DistinctIds(sec) }

\* well-shaped documents, documents without 'speed_rads', documents without
\* 'pos_rad'
Docs ==
    { [keys |-> {"pos_rad", "speed_rads"}, pos_rad |-> p, speed_rads |-> s] :
        <<p, s>> \in { ps \in Sections(PosEntries) \X Sections(SpeedEntries) :
                          Len(ps[1]) + Len(ps[2]) <= MaxEntries } }
    \cup { [keys |-> {"pos_rad"}, pos_rad |-> p, speed_rads |-> << >>] :
                p \in Sections(PosEntries) }
    \cup { [keys |-> {}, pos_rad |-> << >>, speed_rads |-> << >>] }

NoDoc == [keys |-> {}, pos_rad |-> << >>, speed_rads |-> << >>]

\* What mech_rep.recv_string() and json.loads() can come to:
\*   "timeout"   zmq.Again after RCVTIMEO
\*   "zmqerr"    any other zmq.ZMQError
\*   "malformed" a message whose body json.loads rejects
\*   "null"      a message whose body decodes to None
\*   "doc"       a message whose body decodes to a document
RecvOutcomes == {"timeout", "zmqerr", "malformed", "null", "doc"}

\* ------------------------------------------------------------------------
\* handle_mech
\* ------------------------------------------------------------------------

\* recv_stop with stop = True missing from the except Exception branch
recv_stop_zmq_only(outcome) == outcome \in {"zmqerr"}

\* the except branches that set stop = True
recv_stop(outcome) == outcome \in {"zmqerr", "malformed"}

\* recv_error_logged with the receive timeout reported as an error
recv_error_logged_timeout(outcome) == outcome \in {"zmqerr", "malformed", "timeout"}

\* the except branches that print an error
recv_error_logged(outcome) == outcome \in {"zmqerr", "malformed"}

\* mech_dems is None
mech_dems_is_none(outcome) == outcome # "doc"

\* a message was taken from the socket: the REP socket now expects a send
Received(outcome) == outcome \in {"malformed", "null", "doc"}

\* the value handle_mech returns
handle_mech_result == TRUE

\* handle_mech answering only after the batch has been applied
handle_mech_reply_last(hw, cfg, rep, outcome, dems, failAt) ==
    LET rep1 == IF Received(outcome) THEN "send" ELSE rep
        tr0  == IF recv_error_logged(outcome)
                THEN << Event("error", "-", 0, "handle_mech") >>
                ELSE << >>
        st0  == CallState(hw, tr0)
        st1  == actuate_mech_dems(st0, cfg, dems, failAt)
    IN  IF mech_dems_is_none(outcome)
        THEN [st  |-> IF recv_stop(outcome) THEN stop(st0, cfg, failAt) ELSE st0,
              rep |-> rep1]
        ELSE IF st1.exc # "none"
             THEN [st |-> st1, rep |-> rep1]
             ELSE [st  |-> [st1 EXCEPT !.trace =
                               Append(@, Event("reply", "-", 0, "handle_mech"))],
                   rep |-> "recv"]

\* handle_mech answering a body it could not decode as well
handle_mech_reply_on_error(hw, cfg, rep, outcome, dems, failAt) ==
    LET rep1 == IF Received(outcome) THEN "send" ELSE rep
        tr0  == IF recv_error_logged(outcome)
                THEN << Event("error", "-", 0, "handle_mech") >>
                ELSE << >>
        st0  == CallState(hw, tr0)
        st1  == [st0 EXCEPT !.trace = Append(@, Event("reply", "-", 0, "handle_mech"))]
    IN  IF mech_dems_is_none(outcome)
        THEN IF recv_stop(outcome)
             THEN [st  |-> stop(IF Received(outcome) THEN st1 ELSE st0, cfg, failAt),
                   rep |-> rep]
             ELSE [st |-> st0, rep |-> rep1]
        ELSE [st  |-> actuate_mech_dems(st1, cfg, dems, failAt),
              rep |-> "recv"]

handle_mech(hw, cfg, rep, outcome, dems, failAt) ==
    LET rep1 == IF Received(outcome) THEN "send" ELSE rep
        tr0  == IF recv_error_logged(outcome)
                THEN << Event("error", "-", 0, "handle_mech") >>
                ELSE << >>
        st0  == CallState(hw, tr0)
    IN  IF mech_dems_is_none(outcome)
        THEN [st  |-> IF recv_stop(outcome) THEN stop(st0, cfg, failAt) ELSE st0,
              rep |-> rep1]
        ELSE [st  |-> actuate_mech_dems(
                        [st0 EXCEPT !.trace = Append(@, Event("reply", "-", 0, "handle_mech"))],
                        cfg, dems, failAt),
              rep |-> "recv"]

\* ------------------------------------------------------------------------
\* Actions
\* ------------------------------------------------------------------------

Alive == pc \notin {"done", "crashed"}

\* exit_sig_handler: SIGINT or SIGTSTP is delivered
\* exit_sig_handler zeroing the throttle of a channel itself
exit_sig_handler_stopping ==
    /\ Alive
    /\ ~STOP_EXEC
    /\ STOP_EXEC' = TRUE
    /\ servo_kits' = [servo_kits EXCEPT !.throttle[<<0, 0>>] = <<0>>]
    /\ UNCHANGED <<pc, run_controller, mech_exec, rep_state,
                   pub_state, trace, last_recv, mech_dems, stop_triggered, crash>>

exit_sig_handler ==
    /\ Alive
    /\ ~STOP_EXEC
    /\ STOP_EXEC' = TRUE
    /\ UNCHANGED <<pc, run_controller, mech_exec, servo_kits, rep_state,
                   pub_state, trace, last_recv, mech_dems, stop_triggered, crash>>

\* main: ROVER = Mechanisms(...)
Construct ==
    /\ pc = "construct"
    /\ servo_kits' = init_eqpt
    /\ pc' = "stop0"
    /\ UNCHANGED <<STOP_EXEC, run_controller, mech_exec, rep_state, pub_state,
                   trace, last_recv, mech_dems, stop_triggered, crash>>

\* the effect of a call of stop() made from main or run
StopStep(next) ==
    \E failAt \in 0 .. Cardinality(DrvNames) :
        \E st \in {stop(CallState(servo_kits, << >>), mech_exec, failAt)} :
            /\ servo_kits' = st.hw
            /\ trace' = st.trace
            /\ crash' = st.exc
            /\ pc' = IF st.exc = "none" THEN next ELSE "crashed"

\* main: ROVER.stop()
InitialStop ==
    /\ pc = "stop0"
    /\ StopStep("bind")
    /\ UNCHANGED <<STOP_EXEC, run_controller, mech_exec, rep_state, pub_state,
                   last_recv, mech_dems, stop_triggered>>

\* run: the sockets are bound, run_controller = True
Bind ==
    /\ pc = "bind"
    /\ rep_state' = "recv"
    /\ pub_state' = "bound"
    /\ run_controller' = TRUE
    /\ pc' = "handle"
    /\ UNCHANGED <<STOP_EXEC, mech_exec, servo_kits, trace, last_recv, mech_dems,
                   stop_triggered, crash>>

\* run: run_controller &= handle_mech(mechanisms, MECH_REP, MECH_PUB)
HandleMech ==
    /\ pc = "handle"
    /\ \E outcome \in RecvOutcomes, dems \in Docs, failAt \in 0 .. Cardinality(DrvNames) :
        \* a REP socket that has not answered its last request refuses to receive
        /\ rep_state = "send" => outcome = "zmqerr"
        /\ outcome # "doc" => dems = NoDoc
        /\ outcome = "doc" => failAt <= NumAttempts(dems)
        /\ ~recv_stop(outcome) /\ outcome # "doc" => failAt = 0
        /\ \E r \in {handle_mech(servo_kits, mech_exec, rep_state, outcome, dems, failAt)} :
               /\ servo_kits' = r.st.hw
               /\ trace' = r.st.trace
               /\ rep_state' = r.rep
               /\ last_recv' = outcome
               /\ mech_dems' = dems
               /\ stop_triggered' = (stop_triggered \/ recv_stop(outcome))
               /\ crash' = r.st.exc
               /\ IF r.st.exc = "none"
                  THEN /\ run_controller' = (run_controller /\ handle_mech_result)
                       /\ pc' = "check"
                  ELSE /\ run_controller' = run_controller
                       /\ pc' = "crashed"
    /\ UNCHANGED <<STOP_EXEC, mech_exec, pub_state>>

\* run: sys.stdout.flush(); run_controller &= not STOP_EXEC; the while test.
\* The trace observes one loop iteration: it starts empty in the next one.
\* CheckStop without the test of STOP_EXEC
CheckStop_ignoring_flag ==
    /\ pc = "check"
    /\ run_controller' = run_controller
    /\ pc' = IF run_controller' THEN "handle" ELSE "final_stop"
    /\ trace' = << >>
    /\ last_recv' = "none"
    /\ mech_dems' = NoDoc
    /\ UNCHANGED <<STOP_EXEC, mech_exec, servo_kits, rep_state, pub_state,
                   stop_triggered, crash>>

CheckStop ==
    /\ pc = "check"
    /\ run_controller' = (run_controller /\ ~STOP_EXEC)
    /\ pc' = IF run_controller' THEN "handle" ELSE "final_stop"
    /\ trace' = << >>
    /\ last_recv' = "none"
    /\ mech_dems' = NoDoc
    /\ UNCHANGED <<STOP_EXEC, mech_exec, servo_kits, rep_state, pub_state,
                   stop_triggered, crash>>

\* run: mechanisms.stop() after the loop
FinalStop ==
    /\ pc = "final_stop"
    /\ StopStep("close")
    /\ stop_triggered' = TRUE
    /\ UNCHANGED <<STOP_EXEC, run_controller, mech_exec, rep_state, pub_state,
                   last_recv, mech_dems>>

\* run: MECH_REP.close(); MECH_PUB.close(); ZMQ_CONTEXT.destroy()
CloseSockets ==
    /\ pc = "close"
    /\ rep_state' = "closed"
    /\ pub_state' = "closed"
    /\ pc' = "done"
    /\ UNCHANGED <<STOP_EXEC, run_controller, mech_exec, servo_kits, trace,
                   last_recv, mech_dems, stop_triggered, crash>>

Init ==
    /\ pc = "construct"
    /\ STOP_EXEC = FALSE
    /\ run_controller = FALSE
    /\ mech_exec \in Configs \cup DefectiveConfigs
    /\ servo_kits = init_eqpt
    /\ rep_state = "unbound"
    /\ pub_state = "unbound"
    /\ trace = << >>
    /\ last_recv = "none"
    /\ mech_dems = NoDoc
    /\ stop_triggered = FALSE
    /\ crash = "none"

Next ==
    \/ exit_sig_handler
    \/ Construct
    \/ InitialStop
    \/ Bind
    \/ HandleMech
    \/ CheckStop
    \/ FinalStop
    \/ CloseSockets

Spec == Init /\ [][Next]_vars

\* ------------------------------------------------------------------------
\* actuate_mech_dems called twice in succession with the same document, on
\* the boards as the initial stop() or an earlier document has left them; no
\* write fails.  A document writes at most MaxEntries channels, so one
\* earlier document can leave any values on the channels the next one writes.
\* ------------------------------------------------------------------------

\* an earlier call of mechanisms.actuate_mech_dems: what it leaves behind is
\* the state of the boards
ApplyEarlier ==
    /\ pc = "handle"
    /\ \E dems \in Docs :
        \E st \in {actuate_mech_dems(CallState(servo_kits, << >>), mech_exec, dems, 0)} :
            /\ servo_kits' = st.hw
            /\ crash' = st.exc
            /\ trace' = IF st.exc = "none" THEN << >> ELSE st.trace
            /\ pc' = IF st.exc = "none" THEN "primed" ELSE "crashed"
    /\ UNCHANGED <<STOP_EXEC, run_controller, mech_exec, rep_state, pub_state,
                   last_recv, mech_dems, stop_triggered>>

\* mechanisms.actuate_mech_dems(mech_dems) with any document
ApplyBatch ==
    /\ pc \in {"handle", "primed"}
    /\ \E dems \in Docs :
        \E st \in {actuate_mech_dems(CallState(servo_kits, << >>), mech_exec, dems, 0)} :
            /\ servo_kits' = st.hw
            /\ trace' = st.trace
            /\ crash' = st.exc
            /\ mech_dems' = dems
            /\ pc' = IF st.exc = "none" THEN "applied" ELSE "crashed"
    /\ UNCHANGED <<STOP_EXEC, run_controller, mech_exec, rep_state, pub_state,
                   last_recv, stop_triggered>>

\* mechanisms.actuate_mech_dems(mech_dems) with the document applied last
ApplyAgain ==
    /\ pc = "applied"
    /\ \E st \in {actuate_mech_dems(CallState(servo_kits, << >>), mech_exec, mech_dems, 0)} :
            /\ servo_kits' = st.hw
            /\ trace' = st.trace
            /\ crash' = st.exc
            /\ pc' = "again"
    /\ UNCHANGED <<STOP_EXEC, run_controller, mech_exec, rep_state, pub_state,
                   last_recv, mech_dems, stop_triggered>>

NextTwice ==
    \/ Construct
    \/ InitialStop
    \/ Bind
    \/ ApplyEarlier
    \/ ApplyBatch
    \/ ApplyAgain

SpecTwice == Init /\ [][NextTwice]_vars

TypeOK ==
    /\ pc \in {"construct", "stop0", "bind", "handle", "check", "final_stop",
               "close", "done", "crashed", "primed", "applied", "again"}
    /\ STOP_EXEC \in BOOLEAN
    /\ run_controller \in BOOLEAN
    /\ rep_state \in {"unbound", "recv", "send", "closed"}
    /\ pub_state \in {"unbound", "bound", "closed"}
    /\ last_recv \in RecvOutcomes \cup {"none"}
    /\ mech_dems \in Docs
    /\ stop_triggered \in BOOLEAN
    /\ crash \in {"none", "KeyError", "IndexError", "HardwareWriteError"}

\* ------------------------------------------------------------------------
\* Vocabulary of the properties
\* ------------------------------------------------------------------------

Known(act_id) == act_id \in DOMAIN motor_id_dict

ServoNames == StrNames \cup ArmNames

\* stop() was entered in the step that produced this trace
StopRan(tr) == Len(EventsOf(tr, "stop")) > 0

\* the position (speed) demand a document holds for an actuator
PosDemand(dems, act_id) ==
    (CHOOSE i \in 1 .. Len(dems.pos_rad) : dems.pos_rad[i].id = act_id)

SpeedDemand(dems, act_id) ==
    (CHOOSE i \in 1 .. Len(dems.speed_rads) : dems.speed_rads[i].id = act_id)

\* calibration of a steer or arm actuator, read from the document by name
ServoGain(m) ==
    IF m \in StrNames THEN mech_exec.str_ang_rad_to_sk_coeffs[motor_id_dict[m] + 1][1]
                      ELSE mech_exec.arm_ang_rad_to_sk_coeffs[motor_id_dict[m] + 1][1]
ServoOffset(m) ==
    IF m \in StrNames THEN mech_exec.str_ang_rad_to_sk_coeffs[motor_id_dict[m] + 1][2]
                      ELSE mech_exec.arm_ang_rad_to_sk_coeffs[motor_id_dict[m] + 1][2]
ServoMin(m) ==
    IF m \in StrNames THEN mech_exec.str_ang_min_sk[motor_id_dict[m] + 1]
                      ELSE mech_exec.arm_ang_min_sk[motor_id_dict[m] + 1]
ServoMax(m) ==
    IF m \in StrNames THEN mech_exec.str_ang_max_sk[motor_id_dict[m] + 1]
                      ELSE mech_exec.arm_ang_max_sk[motor_id_dict[m] + 1]

DrvGain(m) == mech_exec.drv_rate_norm_to_sk_coeffs[motor_id_dict[m] + 1][1]
DrvOffset(m) == mech_exec.drv_rate_norm_to_sk_coeffs[motor_id_dict[m] + 1][2]
DrvMin(m) == mech_exec.drv_rate_min_sk[motor_id_dict[m] + 1]
DrvMax(m) == mech_exec.drv_rate_max_sk[motor_id_dict[m] + 1]

\* the channel an actuator is wired to
ChannelOf(m) ==
    CASE m \in DrvNames -> mech_exec.drv_idx_map[motor_id_dict[m] + 1]
      [] m \in StrNames -> mech_exec.str_idx_map[motor_id_dict[m] + 1]
      [] m \in ArmNames -> mech_exec.arm_idx_map[motor_id_dict[m] + 1]

\* v saturated to [lo, hi]
Saturated(v, lo, hi) == IF v < lo THEN lo ELSE IF v > hi THEN hi ELSE v

\* every drive motor holds its zero-rate throttle
DrivesAtStop ==
    \A m \in DrvNames : servo_kits.throttle[ChannelOf(m)] = << DrvOffset(m) >>

\* the entries of a document that are valid demands, and the writes they call for
ValidPos(dems) == SelectSeq(dems.pos_rad, LAMBDA e : e.id \in ServoNames)

ValidSpeed(dems) == SelectSeq(dems.speed_rads, LAMBDA e : e.id \in DrvNames)

UnknownEntries(dems) ==
    Len(SelectSeq(dems.pos_rad, LAMBDA e : ~Known(e.id)))
      + Len(SelectSeq(dems.speed_rads, LAMBDA e : ~Known(e.id)))

ExpectedWrites(dems) ==
    [i \in 1 .. Len(ValidPos(dems)) |->
        LET e == ValidPos(dems)[i]
        IN  Event("angle", e.id,
                  Saturated(ServoGain(e.id) * e.val + ServoOffset(e.id),
                            ServoMin(e.id), ServoMax(e.id)), "actuate")]
    \o
    [i \in 1 .. Len(ValidSpeed(dems)) |->
        LET e == ValidSpeed(dems)[i]
        IN  Event("throttle", e.id,
                  Saturated(DrvGain(e.id) * e.val + DrvOffset(e.id),
                            DrvMin(e.id), DrvMax(e.id)), "actuate")]

WellShaped(dems) == dems.keys = {"pos_rad", "speed_rads"}

\* ------------------------------------------------------------------------
\* Properties
\* ------------------------------------------------------------------------

\* C1: a batch with one id that is no key of motor_id_dict alongside N valid
\* entries results in exactly the N writes of the valid entries, with the
\* values they would have without the unknown entry, and in one logged
\* lookup error; the batch is not aborted.
C1_UnknownEntrySkipped ==
    (/\ last_recv = "doc"
     /\ mech_exec \in Configs
     /\ WellShaped(mech_dems)
     /\ UnknownEntries(mech_dems) = 1
     /\ ExpectedWrites(mech_dems) # << >>
     /\ crash # "HardwareWriteError")
    => /\ crash = "none"
       /\ Writes(trace) = ExpectedWrites(mech_dems)
       /\ Len(EventsOf(trace, "error")) = 1

\* C2: every angle written by actuate_mech_dems for a known steer or arm
\* actuator is gain * demand + offset when that lies in [hw_min, hw_max] of
\* the actuator and hw_min or hw_max otherwise, so it is never outside
\* [hw_min, hw_max]; the channel holds the written angle; a batch that is
\* applied to its end has written every steer and arm position entry.
C2_AngleSaturated ==
    /\ \A i \in 1 .. Len(trace) :
          trace[i].ev = "angle" =>
            LET m   == trace[i].motor
                raw == ServoGain(m) * mech_dems.pos_rad[PosDemand(mech_dems, m)].val
                         + ServoOffset(m)
            IN  /\ m \in ServoNames
                /\ ServoMin(m) <= trace[i].val
                /\ trace[i].val <= ServoMax(m)
                /\ (ServoMin(m) <= raw /\ raw <= ServoMax(m)) => trace[i].val = raw
                /\ raw < ServoMin(m) => trace[i].val = ServoMin(m)
                /\ raw > ServoMax(m) => trace[i].val = ServoMax(m)
                /\ servo_kits.angle[ChannelOf(m)] = << trace[i].val >>
    /\ (last_recv = "doc" /\ crash = "none") =>
          \A k \in 1 .. Len(mech_dems.pos_rad) :
              mech_dems.pos_rad[k].id \in ServoNames =>
                  \E i \in 1 .. Len(trace) :
                      trace[i].ev = "angle" /\ trace[i].motor = mech_dems.pos_rad[k].id

\* a position demand was saturated at the upper and another at the lower bound
C2_Witness ==
    /\ last_recv = "doc"
    /\ \E i \in 1 .. Len(trace) :
          /\ trace[i].ev = "angle"
          /\ ServoGain(trace[i].motor)
                * mech_dems.pos_rad[PosDemand(mech_dems, trace[i].motor)].val
                + ServoOffset(trace[i].motor) > ServoMax(trace[i].motor)
    /\ \E i \in 1 .. Len(trace) :
          /\ trace[i].ev = "angle"
          /\ ServoGain(trace[i].motor)
                * mech_dems.pos_rad[PosDemand(mech_dems, trace[i].motor)].val
                + ServoOffset(trace[i].motor) < ServoMin(trace[i].motor)

\* C3: every throttle written by actuate_mech_dems for a known drive actuator
\* is gain * demand + offset of that actuator saturated to that actuator's
\* [drv_rate_min_sk, drv_rate_max_sk]; a batch that is applied to its end has
\* written every drive speed entry, in range or not.
C3_ThrottleSaturated ==
    /\ \A i \in 1 .. Len(trace) :
          (trace[i].ev = "throttle" /\ trace[i].by = "actuate") =>
            LET m   == trace[i].motor
                raw == DrvGain(m) * mech_dems.speed_rads[SpeedDemand(mech_dems, m)].val
                         + DrvOffset(m)
            IN  /\ m \in DrvNames
                /\ trace[i].val = Saturated(raw, DrvMin(m), DrvMax(m))
                /\ servo_kits.throttle[ChannelOf(m)] = << trace[i].val >>
    /\ (last_recv = "doc" /\ crash = "none") =>
          \A k \in 1 .. Len(mech_dems.speed_rads) :
              mech_dems.speed_rads[k].id \in DrvNames =>
                  \E i \in 1 .. Len(trace) :
                      /\ trace[i].ev = "throttle"
                      /\ trace[i].by = "actuate"
                      /\ trace[i].motor = mech_dems.speed_rads[k].id

\* a speed demand beyond the clamp range was written, saturated
C3_Witness ==
    /\ last_recv = "doc"
    /\ crash = "none"
    /\ \E i \in 1 .. Len(trace) :
          /\ trace[i].ev = "throttle"
          /\ trace[i].by = "actuate"
          /\ DrvGain(trace[i].motor)
                * mech_dems.speed_rads[SpeedDemand(mech_dems, trace[i].motor)].val
                + DrvOffset(trace[i].motor) > DrvMax(trace[i].motor)
          /\ trace[i].val = DrvMax(trace[i].motor)

\* C4: every throttle stop() writes to a drive actuator is gain * 0 + offset
\* of that actuator's own coefficients, and a call of stop() that returns has
\* written it to every drive actuator.
C4_StopWritesOwnOffset ==
    /\ \A i \in 1 .. Len(trace) :
          (trace[i].ev = "throttle" /\ trace[i].by = "stop") =>
              /\ trace[i].motor \in DrvNames
              /\ trace[i].val = DrvGain(trace[i].motor) * 0 + DrvOffset(trace[i].motor)
    /\ (StopRan(trace) /\ crash = "none") =>
          \A m \in DrvNames :
              /\ \E i \in 1 .. Len(trace) :
                    trace[i] = Event("throttle", m, DrvOffset(m), "stop")
              /\ servo_kits.throttle[ChannelOf(m)] = << DrvOffset(m) >>

\* stop() returned after writing different values to two drive actuators
C4_Witness ==
    /\ StopRan(trace)
    /\ crash = "none"
    /\ \E i, j \in 1 .. Len(trace) :
          /\ trace[i].by = "stop" /\ trace[i].ev = "throttle"
          /\ trace[j].by = "stop" /\ trace[j].ev = "throttle"
          /\ trace[i].val # trace[j].val

\* C5: a step in which stop() runs leaves the channel of every steer and arm
\* actuator (angle, throttle, actuation range, pulse width range) as it was.
C5_StopHoldsServos ==
    [][StopRan(trace') =>
          \A m \in ServoNames :
              /\ servo_kits'.angle[ChannelOf(m)] = servo_kits.angle[ChannelOf(m)]
              /\ servo_kits'.throttle[ChannelOf(m)] = servo_kits.throttle[ChannelOf(m)]
              /\ servo_kits'.actuation_range[ChannelOf(m)]
                    = servo_kits.actuation_range[ChannelOf(m)]
              /\ servo_kits'.pulse_width[ChannelOf(m)]
                    = servo_kits.pulse_width[ChannelOf(m)]]_vars

\* stop() ran in the loop while a steer and an arm actuator held an angle
C5_Witness ==
    /\ pc = "check"
    /\ StopRan(trace)
    /\ Len(Writes(trace)) = Cardinality(DrvNames)
    /\ servo_kits.angle[ChannelOf("StrML")] # << >>
    /\ servo_kits.angle[ChannelOf("ArmShoulder")] # << >>

\* the process is past the binding of its sockets
LoopEntered == rep_state # "unbound"

\* C6: whenever the process has left the command loop and exited, the drive
\* actuators have been commanded to the stop state and the REP and the PUB
\* socket have been closed.
C6_ExitStoppedAndClosed ==
    (pc \in {"done", "crashed"} /\ LoopEntered) =>
        /\ DrivesAtStop
        /\ rep_state = "closed"
        /\ pub_state = "closed"

\* C7: a hardware write that raises while a received batch is actuated ends
\* the loop and triggers stop(): the drive actuators are commanded to their
\* zero-rate value before the process ends.
C7_WriteErrorTriggersStop ==
    (/\ pc = "crashed"
     /\ crash = "HardwareWriteError"
     /\ last_recv = "doc"
     /\ WellShaped(mech_dems)) =>
        /\ StopRan(trace)
        /\ DrivesAtStop

\* C8: for a body json.loads rejects, handle_mech sends no reply, logs one
\* error, calls stop() once and makes no actuation write.
C8_MalformedStops ==
    last_recv = "malformed" =>
        /\ Len(EventsOf(trace, "reply")) = 0
        /\ Len(EventsOf(trace, "error")) = 1
        /\ Len(EventsOf(trace, "stop")) = 1
        /\ \A i \in 1 .. Len(trace) : IsWrite(trace[i]) => trace[i].by = "stop"
        /\ \A m \in ServoNames : \A i \in 1 .. Len(trace) : trace[i].motor # m

\* an undecodable body was handled and stop() wrote all drive actuators
C8_Witness ==
    /\ last_recv = "malformed"
    /\ pc = "check"
    /\ Len(Writes(trace)) = Cardinality(DrvNames)

\* C9: after a receive that failed with a transport error the command loop
\* ends: no further receive is attempted.
C9_TransportErrorEndsLoop ==
    [][(pc = "check" /\ last_recv = "zmqerr") => pc' # "handle"]_vars

\* C10: once stop() has been called for a transport error, a malformed
\* payload or a shutdown signal, no demand batch is acknowledged or actuated.
C10_StoppedIsTerminal ==
    stop_triggered =>
        /\ Len(EventsOf(trace, "reply")) = 0
        /\ \A i \in 1 .. Len(trace) : IsWrite(trace[i]) => trace[i].by = "stop"

\* both sockets were closed by run()
SocketsClosed == rep_state = "closed" /\ pub_state = "closed"

\* C11: when the shutdown flag was set while the command loop ran, the process
\* ends with run() returned: every drive actuator holds its calibrated
\* zero-rate value and both sockets are closed, whatever the last receive
\* brought.
C11_ShutdownStopsAndCloses ==
    (/\ STOP_EXEC
     /\ LoopEntered
     /\ mech_exec \in Configs
     /\ pc \in {"done", "crashed"}) =>
        /\ pc = "done"
        /\ DrivesAtStop
        /\ SocketsClosed

\* C12: a receive that times out changes no channel of the boards, sends no
\* reply, logs nothing and calls neither the actuation nor stop(); without a
\* shutdown signal the loop then goes on to the next receive.
C12_TimeoutIsSilent ==
    [][/\ (pc = "handle" /\ last_recv' = "timeout") =>
            /\ servo_kits' = servo_kits
            /\ trace' = << >>
            /\ rep_state' = rep_state
            /\ crash' = "none"
            /\ stop_triggered' = stop_triggered
            /\ pc' = "check"
       /\ (pc = "check" /\ last_recv = "timeout" /\ ~STOP_EXEC /\ pc' # pc) =>
            pc' = "handle"]_vars

\* a receive timed out after an earlier batch had set an angle, and no
\* shutdown signal is pending: the next step is the next receive
C12_Witness ==
    /\ pc = "check"
    /\ last_recv = "timeout"
    /\ ~STOP_EXEC
    /\ \E c \in Channels : servo_kits.angle[c] # << >>

\* the replies sent in the current loop iteration
Replies(tr) == EventsOf(tr, "reply")

\* C13: whenever the loop is about to receive, the message received before
\* has been answered: the REP socket is in its receive state.
C13_ReplyBeforeNextReceive ==
    pc = "handle" => rep_state = "recv"

C16_DecodedIsAnswered ==
    last_recv \in {"null", "doc"} => Len(Replies(trace)) = 1

\* C17: the second of two successive applications of the same document makes
\* the writes of the first, in the same order and with the same values, and
\* leaves every channel as the first left it, whatever the boards held before
\* the first.
C17_SameBatchSameWrites ==
    [][pc' = "again" =>
          /\ trace' = trace
          /\ servo_kits' = servo_kits
          /\ crash' = "none"]_vars

\* a document with as many valid entries as a document can hold, one of them
\* a position demand, was applied a second time to boards on which an earlier
\* document had set an angle that the document does not set
C17_Witness ==
    /\ pc = "again"
    /\ \E c \in Channels :
          /\ servo_kits.angle[c] # << >>
          /\ \A i \in 1 .. Len(trace) :
                trace[i].ev = "angle" => ChannelOf(trace[i].motor) # c
    /\ Len(Writes(trace)) = MaxEntries
    /\ \E i \in 1 .. Len(trace) : trace[i].ev = "angle"

\* the number of elements the array of a key needs: one per motor of its group
ArrayLength(key) ==
    IF key \in {"arm_ang_rad_to_sk_coeffs", "arm_ang_min_sk", "arm_ang_max_sk",
                "arm_idx_map"}
    THEN Cardinality(ArmNames)
    ELSE Cardinality(DrvNames)

MissingField == ~(RequiredKeys \subseteq DOMAIN mech_exec)

ShapeMismatch ==
    \E key \in RequiredKeys \cap DOMAIN mech_exec :
        Len(mech_exec[key]) # ArrayLength(key)

\* no throttle and no angle has been written to any channel
NothingWritten ==
    \A c \in Channels :
        servo_kits.throttle[c] = << >> /\ servo_kits.angle[c] = << >>

\* C18: with a document that lacks a required calibration array neither
\* socket is ever bound: the command loop is never entered.
C18_MissingFieldNeverBinds ==
    MissingField => (rep_state = "unbound" /\ pub_state = "unbound")

\* C19: with a document in which an array has not one element per motor of
\* its group, no throttle and no angle is ever written to any channel.
C19_ShapeMismatchNoWrite ==
    ShapeMismatch => (NothingWritten /\ Writes(trace) = << >>)

\* C20: until the first receive of the command loop no angle has been
\* written, a throttle has been written to drive channels only, each holds
\* the zero-rate value of its motor, and every write was made by stop().
C20_OnlyStopWritesBeforeLoop ==
    (pc \in {"construct", "stop0", "bind"} \/ (pc = "handle" /\ trace # << >>)) =>
        /\ \A i \in 1 .. Len(trace) :
              IsWrite(trace[i]) => (trace[i].by = "stop" /\ trace[i].ev = "throttle")
        /\ \A c \in Channels :
              /\ servo_kits.angle[c] = << >>
              /\ servo_kits.throttle[c] # << >> =>
                    \E m \in DrvNames :
                        /\ ChannelOf(m) = c
                        /\ servo_kits.throttle[c] = << DrvOffset(m) >>

\* the initial stop() has written all drive actuators and the sockets are
\* bound: the next step is the first receive
C20_Witness ==
    /\ pc = "handle"
    /\ trace # << >>
    /\ Len(Writes(trace)) = Cardinality(DrvNames)
    /\ \A m \in DrvNames : servo_kits.throttle[ChannelOf(m)] # << >>

\* C21: in the writes of one document no angle write, which a position demand
\* causes, follows a throttle write, which a speed demand causes.
C21_PositionsBeforeSpeeds ==
    last_recv = "doc" =>
        \A i, j \in 1 .. Len(trace) :
            (trace[i].ev = "angle" /\ trace[j].ev = "throttle") => i < j

\* a document with a position demand and a speed demand was applied to its end
C21_Witness ==
    /\ last_recv = "doc"
    /\ crash = "none"
    /\ \E i, j \in 1 .. Len(trace) : trace[i].ev = "angle" /\ trace[j].ev = "throttle"

\* the entries of a document whose group does not match their mapping
Mismatched(dems) ==
    Len(SelectSeq(dems.pos_rad, LAMBDA e : Group(e.id) = "Drv"))
      + Len(SelectSeq(dems.speed_rads, LAMBDA e : Group(e.id) \in {"Str", "Arm"}))

\* C22: a document with a drive id in its position mapping or a steer or arm
\* id in its speed mapping, and no unknown id, is applied without an
\* exception and without a logged error; its writes are those of its other
\* entries, angles to steer and arm motors and throttles to drive motors only.
C22_MismatchedEntryIgnored ==
    (/\ last_recv = "doc"
     /\ mech_exec \in Configs
     /\ WellShaped(mech_dems)
     /\ Mismatched(mech_dems) > 0
     /\ UnknownEntries(mech_dems) = 0
     /\ crash # "HardwareWriteError") =>
        /\ crash = "none"
        /\ Len(EventsOf(trace, "error")) = 0
        /\ Writes(trace) = ExpectedWrites(mech_dems)
        /\ \A i \in 1 .. Len(trace) :
              /\ trace[i].ev = "angle" => trace[i].motor \in ServoNames
              /\ trace[i].ev = "throttle" => trace[i].motor \in DrvNames

\* a document with a mismatched entry and a valid one was applied: the valid
\* entry was written
C22_Witness ==
    /\ last_recv = "doc"
    /\ mech_exec \in Configs
    /\ WellShaped(mech_dems)
    /\ Mismatched(mech_dems) > 0
    /\ crash = "none"
    /\ Len(Writes(trace)) >= 1

\* C23: applying a document a second time, when the channels of its steer and
\* arm motors have been configured by the first application, writes no
\* actuation range and no pulse width range.
C23_ResolveIsPureLookup ==
    [][pc' = "again" => EventsOf(trace', "configure") = << >>]_vars

\* C24: once the Mechanisms object is constructed, every motor of
\* motor_id_dict is wired to a board that exists and to a channel of that
\* board, and every write of the trace went to such a channel.
C24_WiringExists ==
    pc # "construct" =>
        /\ \A m \in DOMAIN motor_id_dict : ChannelOf(m) \in Channels
        /\ \A i \in 1 .. Len(trace) :
              IsWrite(trace[i]) => ChannelOf(trace[i].motor) \in Channels

\* C25: the step that sets STOP_EXEC changes nothing else, neither a channel
\* nor a socket nor the position of the loop, wherever it interleaves; and
\* every step that changes a channel is a step of main or run, which moves the
\* position of the process and leaves the flag alone.
C25_HandlerOnlySetsFlag ==
    [][/\ STOP_EXEC' # STOP_EXEC =>
            /\ STOP_EXEC'
            /\ UNCHANGED <<pc, run_controller, mech_exec, servo_kits, rep_state,
                           pub_state, trace, last_recv, mech_dems,
                           stop_triggered, crash>>
       /\ servo_kits' # servo_kits =>
            /\ pc' # pc
            /\ STOP_EXEC' = STOP_EXEC]_vars

\* the flag was set while the loop was about to receive, after a document
\* had set an angle
C25_Witness ==
    /\ STOP_EXEC
    /\ pc = "handle"
    /\ rep_state = "recv"
    /\ \E c \in Channels : servo_kits.angle[c] # << >>

\* the throttle of a write lies in the clamp range of its motor
InDrvRange(e) == DrvMin(e.motor) <= e.val /\ e.val <= DrvMax(e.motor)

\* C26 as claimed: every throttle written, by actuate_mech_dems or by stop(),
\* lies in the clamp range of its drive motor.
C26_ThrottleWithinRange ==
    \A i \in 1 .. Len(trace) : trace[i].ev = "throttle" => InDrvRange(trace[i])

\* C26: every throttle actuate_mech_dems writes lies in the clamp range of
\* its drive motor; a throttle stop() writes is the offset of the motor as
\* calibrated, not clamped.
C26_ActuatedThrottleWithinRange ==
    \A i \in 1 .. Len(trace) :
        trace[i].ev = "throttle" =>
            /\ trace[i].by = "actuate" => InDrvRange(trace[i])
            /\ trace[i].by = "stop" => trace[i].val = DrvOffset(trace[i].motor)

\* stop() wrote an offset below the clamp range of its motor
C26_Witness ==
    \E i \in 1 .. Len(trace) :
        /\ trace[i].ev = "throttle"
        /\ trace[i].by = "stop"
        /\ trace[i].val < DrvMin(trace[i].motor)

\* C27: a body that decodes to a document without both sections causes no
\* actuation write.
C27_AllOrNothing ==
    (last_recv = "doc" /\ ~WellShaped(mech_dems)) => Writes(trace) = << >>

\* C28: with STOP_EXEC set, the test that follows a call of handle_mech leaves
\* the loop, so at most the one call under way or about to start handles a
\* document; from the final stop() on nothing is answered or actuated, and
\* when run() has returned every drive motor holds its zero-rate value.
C28_OneMoreBatchThenStop ==
    [][/\ (STOP_EXEC /\ pc = "check") => pc' \in {"check", "final_stop"}
       /\ pc' \in {"final_stop", "close", "done"} =>
            /\ Len(Replies(trace')) = 0
            /\ \A i \in 1 .. Len(trace') :
                  IsWrite(trace'[i]) => trace'[i].by = "stop"
       /\ pc' = "done" => DrivesAtStop']_vars

\* with STOP_EXEC set a further document was answered and actuated, and left
\* a drive motor at a throttle other than its zero-rate value
C28_Witness ==
    /\ pc = "check"
    /\ STOP_EXEC
    /\ last_recv = "doc"
    /\ Len(Replies(trace)) = 1
    /\ \E i \in 1 .. Len(trace) :
          /\ trace[i].ev = "throttle"
          /\ trace[i].val # DrvOffset(trace[i].motor)

\* C29: the actuation range and the pulse width range configured on the
\* channel of an arm motor are not the ones the document holds for the steer
\* motor with the same index.
C29_ArmUsesOwnRanges ==
    \A m \in ArmNames :
        LET c == ChannelOf(m)
            i == motor_id_dict[m] + 1
        IN  servo_kits.actuation_range[c] # << >> =>
              ~(/\ servo_kits.actuation_range[c] = << mech_exec.str_act_range_sk[i] >>
                /\ servo_kits.pulse_width[c] = << << mech_exec.str_pw_range_min[i],
                                                     mech_exec.str_pw_range_max[i] >> >>)

\* the throttle writes stop() made to a drive motor in the trace
StopWritesTo(tr, m) ==
    SelectSeq(tr, LAMBDA e : e.ev = "throttle" /\ e.by = "stop" /\ e.motor = m)

\* C30: a call of stop() that returns has made one throttle write to each
\* drive motor and no other write, to a channel or to its configuration; made
\* when every drive motor holds its zero-rate value, as after a call of
\* stop(), it leaves every channel as it was.
C30_StopWritesEachDriveOnce ==
    [][(pc' # pc /\ crash' = "none" /\ StopRan(trace')) =>
          /\ \A m \in DrvNames : Len(StopWritesTo(trace', m)) = 1
          /\ Len(Writes(trace')) = Cardinality(DrvNames)
          /\ EventsOf(trace', "configure") = << >>
          /\ DrivesAtStop => servo_kits' = servo_kits]_vars

\* stop() was called by an iteration whose receive the socket refused because
\* an earlier message is unanswered: the error persists, stop() is called on
\* every iteration
C30_Witness ==
    /\ pc = "check"
    /\ rep_state = "send"
    /\ last_recv = "zmqerr"
    /\ Len(Writes(trace)) = Cardinality(DrvNames)

====
